---- MODULE Spec2Model ----
(***************************************************************************)
(* Omnichannel delivery core: Intake (ScheduleMessageCommand), the         *)
(* time-triggered Dispatcher (MessageScheduler), the event log (one        *)
(* Kinesis shard) and the delivery Worker (KinesisConsumer,                *)
(* MessageProcessor, InMemoryIdempotencyService) over one shared store     *)
(* (tables messages and channel_deliveries).                               *)
(***************************************************************************)
EXTENDS Integers, Sequences, FiniteSets, TLC

\* ------------------------------------------------------------------ bounds
MaxTicks == 1
MaxFaults == 2
MaxCrashes == 1
MaxToolCalls == 2
MaxRecords == 1
MaxChannels == 2
MaxFires == 2
MaxShard == 2
MaxErrors == 1

\* ------------------------------------------------------- program constants
DEFAULT_TTL_SECONDS == 86400
STALE_SECONDS == 300
poll_interval_seconds == 60
batch_size == 100

\* ---------------------------------------------------------------- domains
Msgs == {1, 2}
Replicas == {"d1", "d2"}
\* Two of the ChannelType values; both have a gateway and an agent tool.
Channels == {"facebook", "linkedin"}
\* Channel lists a submitter may hand in (as the set of their members).
TargetChoices == {{"facebook"}, {"facebook", "linkedin"}}
\* Channel lists of a request: CreateMessageDTO.channels has min_length 1.
ChannelLists == (SUBSET Channels) \ {{}}
\* The clock moves by a sweep period or past the idempotency TTL.
Jumps == {poll_interval_seconds, DEFAULT_TTL_SECONDS + 1}

NULL == -1
NoRecord == [status |-> "none", created_at |-> NULL]
NoEvent == [message_id |-> 0, channels |-> {}, source |-> "none"]

VARIABLES
    now,                 \* wall clock, seconds
    ticks,               \* number of clock moves so far
    messages,            \* messages.status per id ("absent": no row)
    scheduled_at,        \* messages.scheduled_at per id
    channel_deliveries,  \* channel_deliveries rows per (message id, channel)
    stream,              \* the Kinesis shard: sequence of published events
    intake,              \* position of ScheduleMessageCommand.execute per message
    dpc,                 \* position of process_due_messages per Dispatcher replica
    drows,               \* rows fetched by the replica's SELECT, not yet dispatched
    dcur,                \* the row the replica is dispatching
    wpc,                 \* position of the Worker
    shard_iterator,      \* next stream position the Worker reads
    wrec,                \* the event the Worker is handling
    channel_results,     \* PublishResult.channel_results of the current event
    wtodo,               \* channel results not yet written to the store
    blocked,             \* PublishResult.metrics["blocked"] of the current event
    cache,               \* InMemoryIdempotencyService._cache
    expires,             \* InMemoryIdempotencyService._expires
    use_ai_agent,        \* settings.use_ai_agent
    faults,              \* store / log failures injected so far
    crashes,             \* Worker crashes so far
    sends,               \* adapter send invocations per (message id, channel)
    handed,              \* stream positions handed to _process_record
    user_id,             \* messages.user_id per id (the owner)
    entity,              \* a Message object in memory (domain entity)
    raised,              \* whether the last call on the entity raised
    ret,                 \* the last check_and_lock call and what it returned
    getres,              \* the last GET /messages/{id} call and its answer
    agent,               \* one run of AgentPublisher.publish
    proc,                \* one Dispatcher process: main, its flag and scheduler
    poll,                \* the executions of poll_job in that process
    swept,               \* the message rows and events that process works on
    filt,                \* the last ContentFilterImpl call and its FilterResult
    direct,              \* one run of DirectPublisher.publish
    gen,                 \* the last two generate_key calls and their keys
    shard,               \* the records of one shard, as the consumer unit sees them
    cons,                \* one KinesisConsumer: its flag, loop position and effects
    submission           \* one CertificationSubmission, called as entity is

vars == <<now, ticks, messages, scheduled_at, channel_deliveries, stream, intake,
          dpc, drows, dcur, wpc, shard_iterator, wrec, channel_results, wtodo,
          blocked, cache, expires, use_ai_agent, faults, crashes, sends, handed,
          user_id, entity, raised, ret, getres, agent, proc, poll, swept, filt,
          direct, gen, shard, cons, submission>>

\* The objects exercised on their own, outside the pipeline.
objVars == <<user_id, entity, raised, ret, getres, agent>>
mainVars == <<proc, poll, swept>>
consumerVars == <<shard, cons>>
lateVars == <<gen, consumerVars, submission>>
unitVars == <<objVars, mainVars, filt, direct, lateVars>>

storeVars == <<messages, scheduled_at, channel_deliveries>>
dispatcherVars == <<dpc, drows, dcur>>
workerVars == <<wpc, shard_iterator, wrec, channel_results, wtodo, blocked,
                cache, expires>>
clockVars == <<now, ticks>>

\* ------------------------------------------------------------ store rows
\* ChannelDelivery(channel=ch): status defaults to MessageStatus.SCHEDULED.
NewDelivery == [status |-> "scheduled", delivered_at |-> NULL,
                external_id |-> 0, error |-> "None"]
NoDelivery == [status |-> "absent", delivered_at |-> NULL,
               external_id |-> 0, error |-> "None"]

TargetChannels(m) == {c \in Channels : channel_deliveries[m][c].status # "absent"}

\* ------------------------------------------------------ idempotency index
Keys == Msgs \X (SUBSET Channels)

\* sha256("<message_id>:<sorted channels joined>"): one key per
\* (message id, channel set), whatever the order of the list.
generate_key(message_id, channels) == <<message_id, channels>>

\* A clean-up that spares Completed records.
ExpiredUnlessCompleted(t) ==
    {k \in Keys : expires[k] # NULL /\ expires[k] < t /\ cache[k].status # "completed"}

\* _cleanup_expired: drop every key whose expiry time is before now.
Expired(t) == {k \in Keys : expires[k] # NULL /\ expires[k] < t}
cleanup_cache(t) == [k \in Keys |-> IF k \in Expired(t) THEN NoRecord ELSE cache[k]]
cleanup_expires(t) == [k \in Keys |-> IF k \in Expired(t) THEN NULL ELSE expires[k]]

\* The stale test of check_and_lock on a Processing record.
IsStale(record, t) == t - record.created_at > STALE_SECONDS

\* check_and_lock that also hands back a Failed record.
check_and_lock_holds_failed(key, t) ==
    LET existing == cleanup_cache(t)[key] IN
    IF existing.status \in {"completed", "failed"} THEN existing
    ELSE IF existing.status = "processing" /\ ~IsStale(existing, t) THEN existing
    ELSE NoRecord

\* check_and_lock(key): the record it returns (NoRecord for None).
check_and_lock_result(key, t) ==
    LET existing == cleanup_cache(t)[key] IN
    IF existing.status = "completed" THEN existing
    ELSE IF existing.status = "processing" /\ ~IsStale(existing, t) THEN existing
    ELSE NoRecord

\* check_and_lock(key): the cache and expiry table it leaves.
check_and_lock_cache(key, t) ==
    IF check_and_lock_result(key, t) # NoRecord THEN cleanup_cache(t)
    ELSE [cleanup_cache(t) EXCEPT ![key] = [status |-> "processing", created_at |-> t]]

check_and_lock_expires(key, t) ==
    IF check_and_lock_result(key, t) # NoRecord THEN cleanup_expires(t)
    ELSE [cleanup_expires(t) EXCEPT ![key] = t + DEFAULT_TTL_SECONDS]

mark_completed(c, key) ==
    IF c[key] # NoRecord THEN [c EXCEPT ![key].status = "completed"] ELSE c

mark_failed(c, key) ==
    IF c[key] # NoRecord THEN [c EXCEPT ![key].status = "failed"] ELSE c

\* ------------------------------------------------------------------- Init
Users == {"u1", "u2", "u3"}

\* No CertificationSubmission object yet.
NoSubmission == [status |-> "none", deliveries |-> <<>>]

\* No Message object yet.
NoEntity == [status |-> "none", channels |-> <<>>, deliveries |-> <<>>,
             updated_at |-> NULL]
NoCall == [key |-> <<0, {}>>, at |-> NULL, found |-> NoRecord, result |-> NoRecord]
NoGet == [caller |-> "none", message_id |-> 0, found |-> FALSE, status |-> "none"]
NoRun == [pc |-> "idle", strict_mode |-> TRUE, channels |-> {}, risk_level |-> "safe",
          blocked |-> FALSE, filtered |-> {}, call_count |-> [c \in Channels |-> 0],
          tool_failed |-> {}]

\* The tables are empty.
StoreEmpty ==
    /\ messages = [m \in Msgs |-> "absent"]
    /\ scheduled_at = [m \in Msgs |-> 0]
    /\ channel_deliveries = [m \in Msgs |-> [c \in Channels |-> NoDelivery]]
    /\ user_id = [m \in Msgs |-> "none"]

\* Nothing published, every process at rest, the Worker not started.
ProcessesInit ==
    /\ now = 0
    /\ ticks = 0
    /\ stream = <<>>
    /\ intake = [m \in Msgs |-> "new"]
    /\ dpc = [r \in Replicas |-> "idle"]
    /\ drows = [r \in Replicas |-> {}]
    /\ dcur = [r \in Replicas |-> NoEvent]
    /\ wpc = "down"
    /\ shard_iterator = 1
    /\ wrec = NoEvent
    /\ channel_results = [c \in Channels |-> "none"]
    /\ wtodo = {}
    /\ blocked = FALSE
    /\ cache = [k \in Keys |-> NoRecord]
    /\ expires = [k \in Keys |-> NULL]
    /\ use_ai_agent \in BOOLEAN
    /\ faults = 0
    /\ crashes = 0
    /\ sends = [m \in Msgs |-> [c \in Channels |-> 0]]
    /\ handed = {}

\* main() up to scheduler.start(): engine and session factory created, the
\* interval job added, the signal handlers installed.
MainEntered == [pc |-> "setup", running |-> TRUE, scheduler |-> "stopped",
                engine |-> "open", fires |-> 0]

\* The two ways poll_job is run: awaited by main at startup, and started by
\* the interval trigger of the AsyncIOScheduler.
PollJobs == {"initial", "interval"}
NoPoll == [pc |-> "idle", rows |-> {}, cur |-> 0]

\* FilterResult.sanitized_content = None.
NoneContent == [present |-> FALSE, text |-> {}]
NoFilter == [call |-> "none", strict_mode |-> TRUE, content |-> {},
             risk_level |-> "safe", is_safe |-> TRUE,
             sanitized_content |-> NoneContent]

\* ChannelType values DirectPublisher is exercised with.
ChannelTypes == {"facebook", "instagram", "linkedin"}
NoPublish == [pc |-> "idle", channels |-> <<>>, media_url |-> FALSE, i |-> 0,
              channel_results |-> [c \in ChannelTypes |-> "absent"],
              invoked |-> {}, in_flight |-> {}, answered |-> <<>>]

\* No generate_key call made.
NoKey == [message_id |-> 0, channels |-> <<>>, key |-> <<>>]

\* A KinesisConsumer as __init__ leaves it, with the correlation ContextVar
\* at its default and nothing handled.
NotStarted == [pc |-> "stopped", running |-> FALSE, stopped_at |-> "none",
               first |-> 1, next |-> 1, upto |-> 0,
               cur |-> 0, ambient |-> "", errors |-> 0, log |-> <<>>,
               writes |-> {}, calls |-> {}, raised |-> {},
               locks |-> [m \in Msgs |-> "none"]]

\* No object built, no call made.
UnitsInit ==
    /\ entity = NoEntity
    /\ raised = FALSE
    /\ ret = NoCall
    /\ getres = NoGet
    /\ agent = NoRun
    /\ proc = MainEntered
    /\ poll = [j \in PollJobs |-> NoPoll]
    /\ swept = [m \in Msgs |-> [status |-> "none", events |-> 0]]
    /\ filt = NoFilter
    /\ direct = NoPublish
    /\ gen = [a |-> NoKey, b |-> NoKey]
    /\ shard = <<>>
    /\ cons = NotStarted
    /\ submission = NoSubmission

Init == StoreEmpty /\ ProcessesInit /\ UnitsInit

\* ------------------------------------------------------------------ clock
Tick(d) ==
    /\ ticks < MaxTicks
    /\ now' = now + d
    /\ ticks' = ticks + 1
    /\ UNCHANGED <<storeVars, stream, intake, dispatcherVars, workerVars,
                   use_ai_agent, unitVars, faults, crashes, sends, handed>>

\* ----------------------------------------------------------------- Intake
\* ScheduleMessageCommand.execute, first half: Message.create, schedule(),
\* repository.save and uow.commit in one transaction.
Schedule(m, channels, at) ==
    /\ intake[m] = "new"
    /\ \A o \in Msgs : o < m => intake[o] # "new"
    /\ messages' = [messages EXCEPT ![m] = "scheduled"]
    /\ scheduled_at' = [scheduled_at EXCEPT ![m] = at]
    /\ channel_deliveries' = [channel_deliveries EXCEPT ![m] =
           [c \in Channels |-> IF c \in channels THEN NewDelivery ELSE NoDelivery]]
    /\ intake' = [intake EXCEPT ![m] = "committed"]
    /\ UNCHANGED <<clockVars, stream, dispatcherVars, workerVars, use_ai_agent, unitVars,
                   faults, crashes, sends, handed>>

\* A publish point that does not wait for the commit.
AtPublishAnytime(pc) == pc \in {"new", "committed"}

\* Where execute calls event_publisher.publish: after the `async with` block
\* has committed and been left without an exception.
AtPublish(pc) == pc = "committed"

\* ScheduleMessageCommand.execute, second half: event_publisher.publish,
\* outside the transaction and whatever scheduled_at is.
IntakePublish(m) ==
    /\ AtPublish(intake[m])
    /\ stream' = Append(stream, [message_id |-> m, channels |-> TargetChannels(m),
                                 source |-> "intake"])
    /\ intake' = [intake EXCEPT ![m] = "published"]
    /\ UNCHANGED <<clockVars, storeVars, dispatcherVars, workerVars, use_ai_agent, unitVars,
                   faults, crashes, sends, handed>>

\* The publish raises (log unavailable) or the process dies before it.
IntakePublishFail(m) ==
    /\ intake[m] = "committed"
    /\ faults < MaxFaults
    /\ faults' = faults + 1
    /\ intake' = [intake EXCEPT ![m] = "publish_failed"]
    /\ UNCHANGED <<clockVars, storeVars, stream, dispatcherVars, workerVars,
                   use_ai_agent, unitVars, crashes, sends, handed>>

\* repository.save or uow.commit raises: __aexit__ rolls back, the exception
\* leaves execute, nothing is stored and publish is never reached.
ScheduleFail(m) ==
    /\ intake[m] = "new"
    /\ \A o \in Msgs : o < m => intake[o] # "new"
    /\ faults < MaxFaults
    /\ faults' = faults + 1
    /\ intake' = [intake EXCEPT ![m] = "save_failed"]
    /\ UNCHANGED <<clockVars, storeVars, stream, dispatcherVars, workerVars,
                   use_ai_agent, unitVars, crashes, sends, handed>>

\* ------------------------------------------------------------- Dispatcher
\* The SELECT of process_due_messages: one row (id, array_agg(channel)) per
\* message that is scheduled, due, and has a delivery row still 'scheduled'.
\* The SELECT without its scheduled_at condition.
ScheduledMessages(t) ==
    {m \in Msgs : /\ messages[m] = "scheduled"
                  /\ \E c \in Channels : channel_deliveries[m][c].status = "scheduled"}

DueMessages(t) ==
    {m \in Msgs : /\ messages[m] = "scheduled"
                  /\ scheduled_at[m] <= t
                  /\ \E c \in Channels : channel_deliveries[m][c].status = "scheduled"}

DueRow(m, r) ==
    [message_id |-> m,
     channels |-> {c \in Channels : channel_deliveries[m][c].status = "scheduled"},
     source |-> r]

Min(a, b) == IF a < b THEN a ELSE b

\* LIMIT :limit without ORDER BY: any batch_size of the due rows.
Batches(t) ==
    {S \in SUBSET DueMessages(t) :
        Cardinality(S) = Min(batch_size, Cardinality(DueMessages(t)))}

\* After a row: the next row of the loop, or the end of the sweep.
AfterRow(r, rest) == IF rest = {} THEN "idle" ELSE "claim"

\* process_due_messages up to fetchall(); an empty result returns 0.
D_Select(r) ==
    /\ dpc[r] = "idle"
    /\ DueMessages(now) # {}
    /\ \E S \in Batches(now) :
          drows' = [drows EXCEPT ![r] = {DueRow(m, r) : m \in S}]
    /\ dpc' = [dpc EXCEPT ![r] = "claim"]
    /\ UNCHANGED <<clockVars, storeVars, stream, intake, dcur, workerVars,
                   use_ai_agent, unitVars, faults, crashes, sends, handed>>

\* UPDATE messages SET status = 'processing' WHERE id = :id AND status =
\* 'scheduled', then commit; the number of rows updated is not looked at.
D_Claim(r) ==
    /\ dpc[r] = "claim"
    /\ \E row \in drows[r] :
          /\ messages' = [messages EXCEPT ![row.message_id] =
                             IF @ = "scheduled" THEN "processing" ELSE @]
          /\ dcur' = [dcur EXCEPT ![r] = row]
          /\ drows' = [drows EXCEPT ![r] = @ \ {row}]
    /\ dpc' = [dpc EXCEPT ![r] = "publish"]
    /\ UNCHANGED <<clockVars, scheduled_at, channel_deliveries, stream, intake,
                   workerVars, use_ai_agent, unitVars, faults, crashes, sends, handed>>

\* publish_message_due succeeds: put_record with PartitionKey = message_id.
D_Publish(r) ==
    /\ dpc[r] = "publish"
    /\ stream' = Append(stream, dcur[r])
    /\ dpc' = [dpc EXCEPT ![r] = AfterRow(r, drows[r])]
    /\ dcur' = [dcur EXCEPT ![r] = NoEvent]
    /\ UNCHANGED <<clockVars, storeVars, intake, drows, workerVars, use_ai_agent, unitVars,
                   faults, crashes, sends, handed>>

\* publish_message_due raises: the except branch logs and calls
\* session.rollback(), which undoes nothing because the UPDATE is committed.
D_PublishFail(r) ==
    /\ dpc[r] = "publish"
    /\ faults < MaxFaults
    /\ faults' = faults + 1
    /\ dpc' = [dpc EXCEPT ![r] = AfterRow(r, drows[r])]
    /\ dcur' = [dcur EXCEPT ![r] = NoEvent]
    /\ UNCHANGED <<clockVars, storeVars, stream, intake, drows, workerVars,
                   use_ai_agent, unitVars, crashes, sends, handed>>

\* ----------------------------------------------------------------- Worker
\* KinesisConsumer.start / _process_shard up to the loop: the process takes
\* a shard iterator of type LATEST, the position after the last record.
W_Start ==
    /\ wpc = "down"
    /\ wpc' = "idle"
    /\ shard_iterator' = Len(stream) + 1
    /\ UNCHANGED <<clockVars, storeVars, stream, intake, dispatcherVars, wrec,
                   channel_results, wtodo, blocked, cache, expires, use_ai_agent, unitVars, faults,
                   crashes, sends, handed>>

\* The Worker process dies (or is aborted at shutdown) wherever it is; its
\* memory, the idempotency cache included, is gone.
W_Crash ==
    /\ wpc # "down"
    /\ crashes < MaxCrashes
    /\ crashes' = crashes + 1
    /\ wpc' = "down"
    /\ wrec' = NoEvent
    /\ channel_results' = [c \in Channels |-> "none"]
    /\ wtodo' = {}
    /\ blocked' = FALSE
    /\ cache' = [k \in Keys |-> NoRecord]
    /\ expires' = [k \in Keys |-> NULL]
    /\ UNCHANGED <<clockVars, storeVars, stream, intake, dispatcherVars,
                   shard_iterator, use_ai_agent, unitVars, faults, sends, handed>>

\* _handle_scheduled_message up to its first await: whether check_and_lock
\* lets the event through (None, or a record that is neither completed nor
\* processing).
SkippedOnlyProcessing(existing) == existing.status = "processing"

Skipped(existing) == existing.status \in {"completed", "processing"}

\* get_records hands the next record to _process_record, which runs
\* _handle_scheduled_message: generate_key, check_and_lock, skip or go on.
W_Receive ==
    /\ wpc = "idle"
    /\ shard_iterator <= Len(stream)
    /\ LET rec == stream[shard_iterator]
           key == generate_key(rec.message_id, rec.channels)
       IN /\ cache' = check_and_lock_cache(key, now)
          /\ expires' = check_and_lock_expires(key, now)
          /\ IF Skipped(check_and_lock_result(key, now))
             THEN wpc' = "idle" /\ wrec' = NoEvent
             ELSE wpc' = "get" /\ wrec' = rec
    /\ handed' = handed \cup {shard_iterator}
    /\ shard_iterator' = shard_iterator + 1
    /\ UNCHANGED <<clockVars, storeVars, stream, intake, dispatcherVars,
                   channel_results, wtodo, blocked, use_ai_agent, unitVars, faults, crashes, sends>>

wkey == generate_key(wrec.message_id, wrec.channels)

\* process_scheduled_message returned: mark_completed, back to the shard loop.
Returned ==
    /\ cache' = mark_completed(cache, wkey)
    /\ wpc' = "idle"
    /\ wrec' = NoEvent
    /\ channel_results' = [c \in Channels |-> "none"]
    /\ wtodo' = {}
    /\ blocked' = FALSE

\* process_scheduled_message raised: mark_failed, re-raise into
\* _process_record, which logs it; back to the shard loop.
Raised ==
    /\ cache' = mark_failed(cache, wkey)
    /\ wpc' = "idle"
    /\ wrec' = NoEvent
    /\ channel_results' = [c \in Channels |-> "none"]
    /\ wtodo' = {}
    /\ blocked' = FALSE

\* _get_message: a missing row makes process_scheduled_message return.
W_GetMessage ==
    /\ wpc = "get"
    /\ IF messages[wrec.message_id] = "absent"
       THEN Returned
       ELSE wpc' = "markproc" /\ UNCHANGED <<wrec, channel_results, wtodo, blocked, cache>>
    /\ UNCHANGED <<clockVars, storeVars, stream, intake, dispatcherVars,
                   shard_iterator, expires, use_ai_agent, unitVars, faults, crashes, sends,
                   handed>>

\* _update_status: UPDATE messages SET status = :status WHERE id = :id.
update_status(m, status) == [messages EXCEPT ![m] = status]

\* _update_status(message_id, "processing"), before the try block.
W_MarkProcessing ==
    /\ wpc = "markproc"
    /\ messages' = update_status(wrec.message_id, "processing")
    /\ wpc' = "deliver"
    /\ UNCHANGED <<clockVars, scheduled_at, channel_deliveries, stream, intake,
                   dispatcherVars, shard_iterator, wrec, channel_results, wtodo, blocked,
                   cache, expires, use_ai_agent, unitVars, faults, crashes, sends, handed>>

\* filter_input: the risk level it computes from what the patterns find.
\* A prompt injection blocks; otherwise a malicious URL is high; otherwise
\* off-topic wording is medium.
input_risk(injection, malicious_url, off_topic) ==
    IF injection THEN "blocked"
    ELSE IF malicious_url THEN "high"
    ELSE IF off_topic THEN "medium"
    ELSE "safe"

InputRisks == {input_risk(i, u, o) : i \in BOOLEAN, u \in BOOLEAN, o \in BOOLEAN}

\* is_safe without the strict-mode rule.
is_safe_lenient(risk_level, strict_mode) == risk_level # "blocked"

\* FilterResult.is_safe as filter_input and filter_output compute it.
is_safe(risk_level, strict_mode) ==
    IF strict_mode THEN risk_level \in {"safe", "low"} ELSE risk_level # "blocked"

\* What a publisher can answer for one requested channel.  DirectPublisher
\* sends on every requested channel and records success or failure;
\* AgentPublisher records only the channels whose tool the agent ran, and
\* none at all when the input filter blocks the content.
Outcomes == IF use_ai_agent THEN {"ok", "fail", "none"} ELSE {"ok", "fail"}

\* The keys of result.channel_results: the channels that got an outcome.
ResultChannels(res) == {c \in Channels : res[c] # "none"}

\* delivery_service.deliver: one adapter send per channel that gets an
\* outcome.  The processor builds AgentPublisher() with strict_mode = True;
\* content its input filter finds unsafe comes back with no outcome at all
\* and metrics["blocked"] set.
W_Deliver ==
    /\ wpc = "deliver"
    /\ \E res \in [Channels -> {"ok", "fail", "none"}] :
          /\ \A c \in Channels :
                IF c \in wrec.channels THEN res[c] \in Outcomes ELSE res[c] = "none"
          /\ \E risk_level \in (IF use_ai_agent THEN InputRisks ELSE {"safe"}) :
                /\ blocked' = ~is_safe(risk_level, TRUE)
                /\ blocked' => \A c \in Channels : res[c] = "none"
          /\ channel_results' = res
          /\ wtodo' = ResultChannels(res)
          /\ sends' = [sends EXCEPT ![wrec.message_id] =
                [c \in Channels |-> IF res[c] # "none" THEN @[c] + 1 ELSE @[c]]]
    /\ wpc' = "record"
    /\ UNCHANGED <<clockVars, storeVars, stream, intake, dispatcherVars,
                   shard_iterator, wrec, cache, expires, use_ai_agent, unitVars, faults,
                   crashes, handed>>

\* _mark_channel_delivered / _mark_channel_failed: an unconditional UPDATE of
\* the (message_id, channel) row.
mark_channel(row, outcome, external_id, t) ==
    IF row.status = "absent" THEN row
    ELSE IF outcome = "ok"
    THEN [row EXCEPT !.status = "delivered", !.delivered_at = t,
                     !.external_id = external_id]
    ELSE [row EXCEPT !.status = "failed", !.error = "error"]

\* One iteration of the loop over result.channel_results.items(); the order
\* of the items is the order of the event's channel list, which the model
\* does not fix.
W_MarkChannel ==
    /\ wpc = "record"
    /\ \E c \in wtodo :
          /\ channel_deliveries' = [channel_deliveries EXCEPT ![wrec.message_id][c] =
                 mark_channel(@, channel_results[c], sends[wrec.message_id][c], now)]
          /\ wtodo' = wtodo \ {c}
    /\ UNCHANGED <<clockVars, messages, scheduled_at, stream, intake,
                   dispatcherVars, wpc, shard_iterator, wrec, channel_results,
                   blocked, cache, expires, use_ai_agent, unitVars, faults, crashes, sends, handed>>

\* The overall status written after the loop, from success_count and
\* len(channels) of the event.
overall_status(res, channels) ==
    LET success_count == Cardinality({c \in Channels : res[c] = "ok"}) IN
    IF success_count = Cardinality(channels) THEN "delivered"
    ELSE IF success_count > 0 THEN "partial"
    ELSE "failed"

\* The final _update_status of the try block; then the method returns.
W_FinalStatus ==
    /\ wpc = "record"
    /\ wtodo = {}
    /\ messages' = update_status(wrec.message_id,
                                 overall_status(channel_results, wrec.channels))
    /\ Returned
    /\ UNCHANGED <<clockVars, scheduled_at, channel_deliveries, stream, intake,
                   dispatcherVars, shard_iterator, expires, use_ai_agent, unitVars, faults,
                   crashes, sends, handed>>

\* The except branch of process_scheduled_message: status 'failed', and the
\* method returns normally.
W_Except ==
    /\ wpc = "except"
    /\ messages' = update_status(wrec.message_id, "failed")
    /\ Returned
    /\ UNCHANGED <<clockVars, scheduled_at, channel_deliveries, stream, intake,
                   dispatcherVars, shard_iterator, expires, use_ai_agent, unitVars, faults,
                   crashes, sends, handed>>

\* A store statement of the Worker raises.  Inside the try block the except
\* branch takes over; outside it (the SELECT, the first _update_status, the
\* _update_status of the except branch) the exception leaves
\* process_scheduled_message.
W_StoreError ==
    /\ wpc \in {"get", "markproc", "record", "except"}
    /\ faults < MaxFaults
    /\ faults' = faults + 1
    /\ IF wpc = "record"
       THEN wpc' = "except" /\ UNCHANGED <<wrec, channel_results, wtodo, blocked, cache>>
       ELSE Raised
    /\ UNCHANGED <<clockVars, storeVars, stream, intake, dispatcherVars,
                   shard_iterator, expires, use_ai_agent, unitVars, crashes, sends, handed>>

\* ScheduleMessageCommand.execute with a log that takes the event.
IntakeOk(M) ==
    \/ \E m \in M, ch \in TargetChoices, d \in {0, poll_interval_seconds} :
          Schedule(m, ch, now + d)
    \/ \E m \in M : IntakePublish(m)

\* One sweep step of a replica with a log that takes the event.
DispatcherOk(r) ==
    \/ D_Select(r)
    \/ D_Claim(r)
    \/ D_Publish(r)

WorkerStep ==
    \/ W_Start
    \/ W_Crash
    \/ W_Receive
    \/ W_GetMessage
    \/ W_MarkProcessing
    \/ W_Deliver
    \/ W_MarkChannel
    \/ W_FinalStatus
    \/ W_Except
    \/ W_StoreError

\* The whole pipeline for one message: Intake, one Dispatcher replica, the
\* log and one Worker process whose store statements may fail and which may
\* crash and restart.
Next ==
    \/ \E d \in Jumps : Tick(d)
    \/ IntakeOk({1})
    \/ DispatcherOk("d1")
    \/ WorkerStep

Spec == Init /\ [][Next]_vars

\* Intake and two Dispatcher replicas against the same store and a log whose
\* put_record may fail; no Worker.
NextDispatch ==
    \/ Tick(poll_interval_seconds)
    \/ IntakeOk(Msgs)
    \/ \E m \in Msgs : IntakePublishFail(m)
    \/ \E r \in Replicas : DispatcherOk(r)
    \/ \E r \in Replicas : D_PublishFail(r)

DispatchSpec == Init /\ [][NextDispatch]_vars

\* ScheduleMessageCommand.execute for two requests, with a store and a log
\* that may fail.
NextIntake ==
    \/ Tick(poll_interval_seconds)
    \/ IntakeOk(Msgs)
    \/ \E m \in Msgs : ScheduleFail(m)
    \/ \E m \in Msgs : IntakePublishFail(m)

IntakeSpec == Init /\ [][NextIntake]_vars

\* ------------------------------------------------- Worker on any shard
\* Some producer puts a message.scheduled record on the shard; its
\* message_id may have no row in the store.
PutRecord(m, channels) ==
    /\ Len(stream) < MaxRecords
    /\ stream' = Append(stream, [message_id |-> m, channels |-> channels,
                                 source |-> "other"])
    /\ UNCHANGED <<clockVars, storeVars, intake, dispatcherVars, workerVars,
                   use_ai_agent, unitVars, faults, crashes, sends, handed>>

\* Intake for one message and the Worker, reading a shard that carries
\* whatever records were put on it.
NextWorker ==
    \/ \E m \in Msgs, channels \in ChannelLists : PutRecord(m, channels)
    \/ IntakeOk({1})
    \/ WorkerStep

WorkerSpec == Init /\ [][NextWorker]_vars

\* ------------------------------------------------- Message (domain entity)
pipelineVars == <<storeVars, stream, intake, dispatcherVars, workerVars,
                  use_ai_agent, faults, crashes, sends, handed>>

\* Channel lists Message.create is called with: any list of channel types,
\* in any order, a channel possibly named twice.
ChannelSeqs == UNION {[1..n -> Channels] : n \in 1..MaxChannels}

\* ChannelDelivery(channel=ch).
EntityDelivery(ch) == [channel |-> ch, status |-> "scheduled",
                       delivered_at |-> NULL, error |-> "None"]

\* The statuses of the deliveries the object tracks.
DeliveryStatuses(deliveries) == {deliveries[i].status : i \in DOMAIN deliveries}

\* _update_overall_status without its third branch.
all_or_nothing_status(deliveries, status) ==
    IF DeliveryStatuses(deliveries) \subseteq {"delivered"} THEN "delivered"
    ELSE IF DeliveryStatuses(deliveries) \subseteq {"failed"} THEN "failed"
    ELSE status

\* _update_overall_status: the status it leaves, given the one it found.
update_overall_status(deliveries, status) ==
    IF DeliveryStatuses(deliveries) \subseteq {"delivered"} THEN "delivered"
    ELSE IF DeliveryStatuses(deliveries) \subseteq {"failed"} THEN "failed"
    ELSE IF "delivered" \in DeliveryStatuses(deliveries) THEN "partially_delivered"
    ELSE status

\* Message.create: status DRAFT, one ChannelDelivery per channel.
E_create(channels) ==
    /\ entity = NoEntity
    /\ entity' = [status |-> "draft",
                  channels |-> channels,
                  deliveries |-> [i \in DOMAIN channels |-> EntityDelivery(channels[i])],
                  updated_at |-> now]
    /\ raised' = FALSE
    /\ UNCHANGED <<clockVars, pipelineVars, mainVars, filt, direct, lateVars, user_id, ret, getres, agent>>

\* The guard of Message.schedule.
AlwaysSchedulable(status) == TRUE

Schedulable(status) == status = "draft"

\* Message.schedule.
E_schedule ==
    /\ entity # NoEntity
    /\ IF Schedulable(entity.status)
       THEN /\ entity' = [entity EXCEPT !.status = "scheduled", !.updated_at = now]
            /\ raised' = FALSE
       ELSE /\ raised' = TRUE
            /\ UNCHANGED entity
    /\ UNCHANGED <<clockVars, pipelineVars, mainVars, filt, direct, lateVars, user_id, ret, getres, agent>>

\* Message.mark_processing.
E_mark_processing ==
    /\ entity # NoEntity
    /\ entity' = [entity EXCEPT !.status = "processing", !.updated_at = now]
    /\ raised' = FALSE
    /\ UNCHANGED <<clockVars, pipelineVars, mainVars, filt, direct, lateVars, user_id, ret, getres, agent>>

\* The loop of mark_channel_delivered / mark_channel_failed: the first
\* delivery of the channel, if there is one, takes the outcome.
mark_delivery(deliveries, c, outcome, t) ==
    LET matching == {i \in DOMAIN deliveries : deliveries[i].channel = c}
        first == CHOOSE i \in matching : \A j \in matching : i <= j
    IN IF matching = {} THEN deliveries
       ELSE IF outcome = "ok"
       THEN [deliveries EXCEPT ![first].status = "delivered",
                               ![first].delivered_at = t]
       ELSE [deliveries EXCEPT ![first].status = "failed", ![first].error = "error"]

\* Message.mark_channel_delivered(channel).
E_mark_channel_delivered(c) ==
    /\ entity # NoEntity
    /\ LET ds == mark_delivery(entity.deliveries, c, "ok", now)
       IN entity' = [entity EXCEPT !.status = update_overall_status(ds, entity.status),
                                  !.deliveries = ds, !.updated_at = now]
    /\ raised' = FALSE
    /\ UNCHANGED <<clockVars, pipelineVars, mainVars, filt, direct, lateVars, user_id, ret, getres, agent>>

\* Message.mark_channel_failed(channel, error).
E_mark_channel_failed(c) ==
    /\ entity # NoEntity
    /\ LET ds == mark_delivery(entity.deliveries, c, "fail", now)
       IN entity' = [entity EXCEPT !.status = update_overall_status(ds, entity.status),
                                  !.deliveries = ds, !.updated_at = now]
    /\ raised' = FALSE
    /\ UNCHANGED <<clockVars, pipelineVars, mainVars, filt, direct, lateVars, user_id, ret, getres, agent>>

\* Any caller of the entity: calls in any order, the clock moving between.
NextEntity ==
    \/ Tick(poll_interval_seconds)
    \/ \E channels \in ChannelSeqs : E_create(channels)
    \/ E_schedule
    \/ E_mark_processing
    \/ \E c \in Channels : E_mark_channel_delivered(c)
    \/ \E c \in Channels : E_mark_channel_failed(c)

EntitySpec == Init /\ [][NextEntity]_vars

\* ------------------------------------------------------- GET /messages/{id}
\* repository.save of a new message built for user u (MessageModel.from_entity
\* stores message.user_id).
Save(m, u, channels) ==
    /\ messages[m] = "absent"
    /\ messages' = [messages EXCEPT ![m] = "scheduled"]
    /\ user_id' = [user_id EXCEPT ![m] = u]
    /\ channel_deliveries' = [channel_deliveries EXCEPT ![m] =
           [c \in Channels |-> IF c \in channels THEN NewDelivery ELSE NoDelivery]]
    /\ UNCHANGED <<clockVars, scheduled_at, stream, intake, dispatcherVars,
                   workerVars, use_ai_agent, faults, crashes, sends, handed,
                   entity, raised, ret, getres, agent, mainVars, filt, direct, lateVars>>

\* PostgresMessageRepository.get_by_id: SELECT ... WHERE id = :id.
get_by_id(message_id) == messages[message_id] # "absent"

\* get_message -> GetMessageService.execute(message_id): the route passes the
\* id only; the answer is the DTO of the row, or None (404) without a row.
GetMessage(caller, message_id) ==
    /\ getres' = [caller |-> caller, message_id |-> message_id,
                  found |-> get_by_id(message_id),
                  status |-> IF get_by_id(message_id) THEN messages[message_id]
                             ELSE "none"]
    /\ UNCHANGED <<clockVars, pipelineVars, mainVars, filt, direct, lateVars, user_id, entity, raised, ret, agent>>

NextGet ==
    \/ \E m \in Msgs, u \in Users, channels \in ChannelLists : Save(m, u, channels)
    \/ \E caller \in Users, m \in Msgs : GetMessage(caller, m)

GetSpec == Init /\ [][NextGet]_vars

\* ----------------------------------------------------------- AgentPublisher
\* publish up to the agent run: filter_input, and the early return with an
\* empty channel_results when the result is not safe.
A_Publish(strict_mode, channels, risk_level) ==
    /\ agent.pc = "idle"
    /\ agent' = [agent EXCEPT !.strict_mode = strict_mode, !.channels = channels,
                              !.risk_level = risk_level,
                              !.blocked = ~is_safe(risk_level, strict_mode),
                              !.pc = IF is_safe(risk_level, strict_mode)
                                     THEN "agent" ELSE "done"]
    /\ UNCHANGED <<clockVars, pipelineVars, mainVars, filt, direct, lateVars, user_id, entity, raised, ret, getres>>

\* During self._agent(user_prompt) the model calls a tool with the text it
\* wrote for the platform; the tool hands that text to gateway.send.
A_Tool(c, ok) ==
    /\ agent.pc = "agent"
    /\ agent.call_count[c] < MaxToolCalls
    /\ agent' = [agent EXCEPT !.call_count[c] = @ + 1,
                              !.tool_failed = IF ok THEN @ ELSE @ \cup {c}]
    /\ UNCHANGED <<clockVars, pipelineVars, mainVars, filt, direct, lateVars, user_id, entity, raised, ret, getres>>

\* The agent run returns; filter_output is applied to the final text
\* response (summary) when there is one; the result is built from tool_usage.
A_Finish(has_summary) ==
    /\ agent.pc = "agent"
    /\ agent' = [agent EXCEPT !.filtered = IF has_summary THEN @ \cup {"summary"} ELSE @,
                              !.pc = "done"]
    /\ UNCHANGED <<clockVars, pipelineVars, mainVars, filt, direct, lateVars, user_id, entity, raised, ret, getres>>

\* PublishResult.channel_results of a finished run.
agent_channel_results(run) ==
    [c \in Channels |-> IF run.call_count[c] = 0 THEN "none"
                        ELSE IF c \in run.tool_failed THEN "fail" ELSE "ok"]

NextAgent ==
    \/ \E strict_mode \in BOOLEAN, channels \in ChannelLists, risk_level \in InputRisks :
          A_Publish(strict_mode, channels, risk_level)
    \/ \E c \in Channels, ok \in BOOLEAN : A_Tool(c, ok)
    \/ \E has_summary \in BOOLEAN : A_Finish(has_summary)

AgentSpec == Init /\ [][NextAgent]_vars

\* ------------------------------------------- InMemoryIdempotencyService
\* The keys the service is exercised with on its own.
IdemKeys == {generate_key(m, {"facebook"}) : m \in Msgs}

\* The clock moves to either side of the stale limit and of the TTL.
IdemJumps == {STALE_SECONDS, STALE_SECONDS + 1,
              DEFAULT_TTL_SECONDS, DEFAULT_TTL_SECONDS + 1}

idemRest == <<storeVars, stream, intake, dispatcherVars, wpc, shard_iterator, wrec,
              channel_results, wtodo, blocked, use_ai_agent, faults, crashes, sends,
              handed, user_id, entity, raised, getres, agent, mainVars, filt, direct, lateVars>>

I_check_and_lock(key) ==
    /\ cache' = check_and_lock_cache(key, now)
    /\ expires' = check_and_lock_expires(key, now)
    /\ ret' = [key |-> key, at |-> now, found |-> cache[key],
               result |-> check_and_lock_result(key, now)]
    /\ UNCHANGED <<clockVars, idemRest>>

I_mark_completed(key) ==
    /\ cache' = mark_completed(cache, key)
    /\ UNCHANGED <<clockVars, idemRest, expires, ret>>

I_mark_failed(key) ==
    /\ cache' = mark_failed(cache, key)
    /\ UNCHANGED <<clockVars, idemRest, expires, ret>>

\* release_lock: the key leaves both tables.
I_release_lock(key) ==
    /\ cache' = [cache EXCEPT ![key] = NoRecord]
    /\ expires' = [expires EXCEPT ![key] = IF cache[key] # NoRecord THEN NULL ELSE @]
    /\ UNCHANGED <<clockVars, idemRest, ret>>

\* Any caller of the service: calls in any order, the clock moving between.
NextIdem ==
    \/ \E d \in IdemJumps : Tick(d)
    \/ \E key \in IdemKeys : I_check_and_lock(key)
    \/ \E key \in IdemKeys : I_mark_completed(key)
    \/ \E key \in IdemKeys : I_mark_failed(key)
    \/ \E key \in IdemKeys : I_release_lock(key)

IdemSpec == Init /\ [][NextIdem]_vars

\* ------------------------------------------------- scheduler main (process)
restOfMain == <<clockVars, pipelineVars, objVars, filt, direct, lateVars>>

\* A poll_job execution is between its entry and its return.
InProgress(j) == poll[j].pc \in {"select", "claim", "publish"}

\* The API commits a message that is due (a row with status scheduled).
S_Due(m) ==
    /\ swept[m].status = "none"
    /\ swept' = [swept EXCEPT ![m].status = "scheduled"]
    /\ UNCHANGED <<proc, poll, restOfMain>>

\* scheduler.start(), then main awaits poll_job(): the initial poll is
\* called directly, not through the scheduler's job.
M_Start ==
    /\ proc.pc = "setup"
    /\ proc' = [proc EXCEPT !.pc = "initial_poll", !.scheduler = "running"]
    /\ poll' = [poll EXCEPT !["initial"].pc = "select"]
    /\ UNCHANGED <<swept, restOfMain>>

\* The interval trigger comes due while the event loop runs.  The code puts
\* no limit on the time a sweep takes, so it can come due at any await of a
\* running sweep.  max_instances=1 counts the runs the scheduler started.
J_Fire ==
    /\ proc.pc \in {"initial_poll", "sleep"}
    /\ proc.scheduler = "running"
    /\ proc.fires < MaxFires
    /\ ~InProgress("interval")
    /\ poll' = [poll EXCEPT !["interval"] = [NoPoll EXCEPT !.pc = "select"]]
    /\ proc' = [proc EXCEPT !.fires = @ + 1]
    /\ UNCHANGED <<swept, restOfMain>>

\* The trigger comes due while the run it started before is in progress:
\* max_instances is reached and the run is skipped.
J_Skip ==
    /\ proc.pc \in {"initial_poll", "sleep"}
    /\ proc.scheduler = "running"
    /\ proc.fires < MaxFires
    /\ InProgress("interval")
    /\ proc' = [proc EXCEPT !.fires = @ + 1]
    /\ UNCHANGED <<poll, swept, restOfMain>>

\* poll_job -> process_due_messages: the SELECT of the due rows.
P_Select(j) ==
    /\ proc.pc # "exited"
    /\ poll[j].pc = "select"
    /\ LET rows == {m \in Msgs : swept[m].status = "scheduled"}
       IN poll' = [poll EXCEPT ![j].rows = rows,
                               ![j].pc = IF rows = {} THEN "done" ELSE "claim"]
    /\ UNCHANGED <<proc, swept, restOfMain>>

\* The UPDATE ... WHERE status = 'scheduled' of one fetched row, and commit.
P_Claim(j, m) ==
    /\ proc.pc # "exited"
    /\ poll[j].pc = "claim"
    /\ m \in poll[j].rows
    /\ swept' = [swept EXCEPT ![m].status = "processing"]
    /\ poll' = [poll EXCEPT ![j].rows = @ \ {m}, ![j].cur = m, ![j].pc = "publish"]
    /\ UNCHANGED <<proc, restOfMain>>

\* publish_message_due for the row just claimed; then the next row, or the
\* return of process_due_messages and of poll_job.
P_Publish(j) ==
    /\ proc.pc # "exited"
    /\ poll[j].pc = "publish"
    /\ swept' = [swept EXCEPT ![poll[j].cur].events = @ + 1]
    /\ poll' = [poll EXCEPT ![j].cur = 0,
                            ![j].pc = IF poll[j].rows = {} THEN "done" ELSE "claim"]
    /\ UNCHANGED <<proc, restOfMain>>

\* The awaited initial poll returned: main enters its sleep loop.
M_InitialDone ==
    /\ proc.pc = "initial_poll"
    /\ poll["initial"].pc = "done"
    /\ proc' = [proc EXCEPT !.pc = "sleep"]
    /\ UNCHANGED <<poll, swept, restOfMain>>

\* SIGTERM / SIGINT: shutdown() clears _running and calls
\* scheduler.shutdown(wait=False).
M_Signal ==
    /\ proc.pc \in {"initial_poll", "sleep"}
    /\ proc.running
    /\ proc' = [proc EXCEPT !.running = FALSE, !.scheduler = "shutdown"]
    /\ UNCHANGED <<poll, swept, restOfMain>>

\* The sleep loop sees _running false: the finally block disposes the engine
\* and main returns.  Nothing awaits a run the scheduler started; the event
\* loop closes and such a run ends where it stands.
M_Exit ==
    /\ proc.pc = "sleep"
    /\ ~proc.running
    /\ proc' = [proc EXCEPT !.pc = "exited", !.engine = "disposed"]
    /\ poll' = [j \in PollJobs |->
                   IF InProgress(j) THEN [poll[j] EXCEPT !.pc = "cancelled"]
                   ELSE poll[j]]
    /\ UNCHANGED <<swept, restOfMain>>

NextMain ==
    \/ \E m \in Msgs : S_Due(m)
    \/ M_Start
    \/ J_Fire
    \/ J_Skip
    \/ \E j \in PollJobs : P_Select(j)
    \/ \E j \in PollJobs, m \in Msgs : P_Claim(j, m)
    \/ \E j \in PollJobs : P_Publish(j)
    \/ M_InitialDone
    \/ M_Signal
    \/ M_Exit

MainSpec == Init /\ [][NextMain]_vars

\* --------------------------------------------------------- ContentFilterImpl
\* What the patterns can find in a text, and markup the sanitizers take out.
Findings == {"injection", "malicious_url", "off_topic", "pii", "markup"}

\* filter_output: PII or a malicious URL is high; an injection artifact blocks.
output_risk(pii, malicious_url, injection) ==
    IF injection THEN "blocked"
    ELSE IF pii \/ malicious_url THEN "high"
    ELSE "safe"

\* _sanitize_input / _sanitize_output: markup is escaped or removed.
sanitize(content) == content \ {"markup"}

\* sanitized_content handed back whatever is_safe says.
sanitized_content_always(sanitized, safe) == [present |-> TRUE, text |-> sanitized]

\* FilterResult.sanitized_content: sanitized if is_safe else None.
sanitized_content(sanitized, safe) ==
    IF safe THEN [present |-> TRUE, text |-> sanitized] ELSE NoneContent

FilterResult(call, strict_mode, content, risk_level) ==
    [call |-> call, strict_mode |-> strict_mode, content |-> content,
     risk_level |-> risk_level,
     is_safe |-> is_safe(risk_level, strict_mode),
     sanitized_content |-> sanitized_content(sanitize(content),
                                             is_safe(risk_level, strict_mode))]

restOfFilter == <<clockVars, pipelineVars, objVars, mainVars, direct, lateVars>>

F_filter_input(strict_mode, content) ==
    /\ filt' = FilterResult("input", strict_mode, content,
                            input_risk("injection" \in content,
                                       "malicious_url" \in content,
                                       "off_topic" \in content))
    /\ UNCHANGED restOfFilter

F_filter_output(strict_mode, content) ==
    /\ filt' = FilterResult("output", strict_mode, content,
                            output_risk("pii" \in content,
                                        "malicious_url" \in content,
                                        "injection" \in content))
    /\ UNCHANGED restOfFilter

NextFilter ==
    \/ \E strict_mode \in BOOLEAN, content \in SUBSET Findings :
          F_filter_input(strict_mode, content)
    \/ \E strict_mode \in BOOLEAN, content \in SUBSET Findings :
          F_filter_output(strict_mode, content)

FilterSpec == Init /\ [][NextFilter]_vars

\* ----------------------------------------------------------- DirectPublisher
\* request.channels: any list of channel types.
RequestChannels == UNION {[1..n -> ChannelTypes] : n \in 1..MaxChannels}

\* What awaiting gateway.send can do: a DeliveryResult with success true, one
\* with success false, or an exception.
Answers == {"ok", "failure", "raise"}

\* _publish_to_channel without its media check: every channel goes to its
\* adapter.
NoMedia_unchecked(c, media_url) == FALSE

\* _publish_to_channel answers for Instagram without media itself.
NoMedia(c, media_url) == c = "instagram" /\ ~media_url

\* Awaiting the tasks bare: an exception of a task leaves publish.
propagates_uncaught(answer) == answer = "raise"

\* try: result = await task / except Exception: no exception leaves publish.
propagates(answer) == FALSE

restOfDirect == <<clockVars, pipelineVars, objVars, mainVars, filt, lateVars>>

\* publish up to the first await: the coroutines are created, none has run.
DP_publish(channels, media_url) ==
    /\ direct.pc = "idle"
    /\ direct' = [NoPublish EXCEPT !.pc = "awaiting", !.channels = channels,
                                   !.media_url = media_url, !.i = 1]
    /\ UNCHANGED restOfDirect

\* result = await task reaches gateway.send of the next channel of the list:
\* the coroutine of a channel runs only once the loop awaits it, and the loop
\* awaits it only after the previous channel's result was stored.
DP_send ==
    /\ direct.pc = "awaiting"
    /\ direct.i \notin direct.invoked
    /\ ~NoMedia(direct.channels[direct.i], direct.media_url)
    /\ direct' = [direct EXCEPT !.invoked = @ \cup {direct.i},
                                !.in_flight = @ \cup {direct.i}]
    /\ UNCHANGED restOfDirect

\* result = await task completes for the next channel of the list, and the
\* entry written to channel_results.
DP_await(answer) ==
    /\ direct.pc = "awaiting"
    /\ LET c == direct.channels[direct.i]
           sent == ~NoMedia(c, direct.media_url)
       IN /\ sent => direct.i \in direct.in_flight
          /\ ~sent => answer = "failure"
          /\ IF propagates(answer)
             THEN direct' = [direct EXCEPT !.pc = "raised",
                               !.in_flight = @ \ {direct.i},
                               !.answered = Append(@, answer)]
             ELSE direct' = [direct EXCEPT
                               !.channel_results[c] =
                                   IF answer = "ok" THEN "success" ELSE "failed",
                               !.in_flight = @ \ {direct.i},
                               !.answered = Append(@, answer),
                               !.i = @ + 1,
                               !.pc = IF direct.i = Len(direct.channels)
                                      THEN "done" ELSE "awaiting"]
    /\ UNCHANGED restOfDirect

NextDirect ==
    \/ \E channels \in RequestChannels, media_url \in BOOLEAN :
          DP_publish(channels, media_url)
    \/ DP_send
    \/ \E answer \in Answers : DP_await(answer)

DirectSpec == Init /\ [][NextDirect]_vars

\* ------------------------------------------------------------- generate_key
\* The order of the channel names as strings.
rank == [facebook |-> 1, instagram |-> 2, linkedin |-> 3]

\* The list as it is, unsorted.
unsorted(channels) == channels

\* sorted(channels).
RECURSIVE sorted(_)
sorted(channels) ==
    IF channels = <<>> THEN <<>>
    ELSE LET x == Head(channels)
             rest == sorted(Tail(channels))
             k == Cardinality({i \in DOMAIN rest : rank[rest[i]] <= rank[x]})
         IN SubSeq(rest, 1, k) \o <<x>> \o SubSeq(rest, k + 1, Len(rest))

\* ",".join(...): the names with a comma between each two.
RECURSIVE join(_)
join(names) ==
    IF Len(names) <= 1 THEN names
    ELSE <<Head(names), ",">> \o join(Tail(names))

channels_str(channels) == join(sorted(channels))

\* f"{message_id}:{channels_str}", as the sequence of its parts.
key_input(message_id, channels) ==
    <<ToString(message_id), ":">> \o channels_str(channels)

\* hashlib.sha256(...).hexdigest(): one digest per input, no two inputs
\* sharing a digest.
sha256(input) == input

\* The channel lists generate_key is called with.
KeyChannels == UNION {[1..n -> ChannelTypes] : n \in 0..MaxChannels}

restOfKey == <<clockVars, pipelineVars, objVars, mainVars, filt, direct, consumerVars,
               submission>>

K_generate_key(message_id, channels) ==
    /\ gen' = [a |-> gen.b,
               b |-> [message_id |-> message_id, channels |-> channels,
                      key |-> sha256(key_input(message_id, channels))]]
    /\ UNCHANGED restOfKey

NextKey == \E message_id \in Msgs, channels \in KeyChannels :
               K_generate_key(message_id, channels)

KeySpec == Init /\ [][NextKey]_vars

\* ----------------------------------------------------------- KinesisConsumer
\* The records a shard can carry: bytes that are not JSON, an event of
\* another type, or a message.scheduled event; an event may carry a
\* correlation_id.
CorrelationIds == {"", "A"}
ShardRecords ==
    {[kind |-> "bad_json", message_id |-> 0, correlation_id |-> ""]}
    \cup {[kind |-> "unknown", message_id |-> 0, correlation_id |-> cid] :
             cid \in CorrelationIds}
    \cup {[kind |-> "scheduled", message_id |-> m, correlation_id |-> cid] :
             m \in Msgs, cid \in CorrelationIds}

restOfConsumer == <<clockVars, pipelineVars, objVars, mainVars, filt, direct, gen,
                    submission>>

\* A producer puts a record on the shard.
PutShard(record) ==
    /\ Len(shard) < MaxShard
    /\ shard' = Append(shard, record)
    /\ UNCHANGED <<cons, restOfConsumer>>

\* start() and _process_shard up to the loop: _running = True and an
\* iterator of type LATEST.
C_start ==
    /\ cons.pc = "stopped"
    /\ cons' = [cons EXCEPT !.pc = "get", !.running = TRUE,
                            !.first = Len(shard) + 1, !.next = Len(shard) + 1]
    /\ UNCHANGED <<shard, restOfConsumer>>

\* stop(), run by the task the signal handler creates: _running = False.
C_stop ==
    /\ cons.pc \notin {"stopped", "exited"}
    /\ cons.running
    /\ cons' = [cons EXCEPT !.running = FALSE, !.stopped_at = cons.pc]
    /\ UNCHANGED <<shard, restOfConsumer>>

\* A loop that does not look at _running.
loop_ignores_running(running, iterator) == iterator # NULL

\* while self._running and shard_iterator.
loop_condition(running, iterator) == running /\ iterator # NULL

\* The loop condition holds and get_records answers with the next k records
\* (none: the iterator is kept and the loop sleeps a second).
C_get_records(k) ==
    /\ cons.pc = "get"
    /\ loop_condition(cons.running, cons.next)
    /\ k <= Len(shard) - cons.next + 1
    /\ cons' = [cons EXCEPT !.upto = cons.next + k - 1,
                            !.cur = IF k = 0 THEN 0 ELSE cons.next,
                            !.pc = IF k = 0 THEN "sleep" ELSE "batch"]
    /\ UNCHANGED <<shard, restOfConsumer>>

\* The loop condition holds and get_records raises: the except branch of
\* the loop logs and sleeps five seconds.
C_get_fails ==
    /\ cons.pc = "get"
    /\ loop_condition(cons.running, cons.next)
    /\ cons.errors < MaxErrors
    /\ cons' = [cons EXCEPT !.errors = @ + 1, !.pc = "backoff"]
    /\ UNCHANGED <<shard, restOfConsumer>>

\* The sleep of an empty answer or of the error back-off ends.
C_wake ==
    /\ cons.pc \in {"sleep", "backoff"}
    /\ cons' = [cons EXCEPT !.pc = "get"]
    /\ UNCHANGED <<shard, restOfConsumer>>

\* The loop condition fails: _process_shard returns, gather and start return.
C_exit ==
    /\ cons.pc = "get"
    /\ ~loop_condition(cons.running, cons.next)
    /\ cons' = [cons EXCEPT !.pc = "exited"]
    /\ UNCHANGED <<shard, restOfConsumer>>

\* After the record at cur: the next record of the batch, or the loop head
\* with the iterator after the batch.
after_record(c) ==
    IF c.cur = c.upto
    THEN [c EXCEPT !.cur = 0, !.next = c.upto + 1, !.pc = "get"]
    ELSE [c EXCEPT !.cur = @ + 1, !.pc = "batch"]

\* set_correlation_id only when the record carries a non-empty id.
restore(ambient, correlation_id) ==
    IF correlation_id # "" THEN correlation_id ELSE ambient

\* _process_record up to the dispatch on event_type: json.loads (a
\* JSONDecodeError ends the record there), then the correlation id.
C_parse ==
    /\ cons.pc = "batch"
    /\ LET record == shard[cons.cur]
           logged == [cons EXCEPT !.log = Append(@, cons.cur)]
       IN IF record.kind = "bad_json"
          THEN cons' = after_record(logged)
          ELSE cons' = [logged EXCEPT
                          !.ambient = restore(@, record.correlation_id),
                          !.pc = "record"]
    /\ UNCHANGED <<shard, restOfConsumer>>

\* The ways process_scheduled_message can end: it returns (its try block
\* catches what delivery and the row updates raise); it raises before any
\* write (UUID(), the SELECT or the first _update_status raise); or it raises
\* from the _update_status of its except branch, after statements and
\* adapter sends of the try block.
Endings == {"returns", "raises_early", "raises_late"}

\* The rest of _process_record: an unknown event type is logged;
\* _handle_scheduled_message skips a key that is Completed or Processing,
\* otherwise locks it, processes, and marks it Completed or Failed.  An
\* exception is caught and logged by _process_record.
C_handle(ending) ==
    /\ cons.pc = "record"
    /\ LET record == shard[cons.cur]
           m == record.message_id
       IN IF record.kind = "unknown" \/ cons.locks[m] \in {"completed", "processing"}
          THEN /\ ending = "returns"
               /\ cons' = after_record(cons)
          ELSE cons' = after_record(
                  [cons EXCEPT
                     !.locks[m] = IF ending = "returns" THEN "completed" ELSE "failed",
                     !.writes = IF ending = "raises_early" THEN @ ELSE @ \cup {cons.cur},
                     !.calls = IF ending = "raises_early" THEN @ ELSE @ \cup {cons.cur},
                     !.raised = IF ending = "returns" THEN @ ELSE @ \cup {cons.cur}])
    /\ UNCHANGED <<shard, restOfConsumer>>

\* The steps of the consumer's own task.
ConsumerRun ==
    \/ C_start
    \/ \E k \in 0..MaxShard : C_get_records(k)
    \/ C_get_fails
    \/ C_wake
    \/ C_exit
    \/ C_parse
    \/ \E ending \in Endings : C_handle(ending)

NextConsumer ==
    \/ \E record \in ShardRecords : PutShard(record)
    \/ C_stop
    \/ ConsumerRun

ConsumerSpec == Init /\ [][NextConsumer]_vars

\* For shutdown the content of a record matters only by its kind: one
\* record of each kind, without correlation id.
ShutdownRecords ==
    {record \in ShardRecords : record.correlation_id = "" /\ record.message_id <= 1}

NextShutdown ==
    \/ \E record \in ShutdownRecords : PutShard(record)
    \/ C_stop
    \/ ConsumerRun

\* The event loop keeps running the consumer's task: its sleeps end and its
\* awaited calls answer.
ShutdownSpec == Init /\ [][NextShutdown]_vars /\ WF_vars(ConsumerRun)

\* ---------------------------------------------- CertificationSubmission
\* CertificationDelivery(channel=channel).
CertificationDelivery(ch) == [channel |-> ch, status |-> "pending"]

\* sum(1 for d in self.deliveries if d.status == status).
count(deliveries, status) ==
    Cardinality({i \in DOMAIN deliveries : deliveries[i].status = status})

\* _update_status: the status it leaves, given the one it found.
submission_update_status(deliveries, status) ==
    LET delivered == count(deliveries, "delivered")
        failed == count(deliveries, "failed")
        total == Len(deliveries)
    IN IF delivered = total THEN "delivered"
       ELSE IF failed = total THEN "failed"
       ELSE IF delivered + failed = total THEN "partially_delivered"
       ELSE status

\* The loop of CertificationSubmission.mark_channel_delivered /
\* mark_channel_failed: the first delivery of the channel takes the outcome.
mark_submission_delivery(deliveries, c, outcome) ==
    LET matching == {i \in DOMAIN deliveries : deliveries[i].channel = c}
        first == CHOOSE i \in matching : \A j \in matching : i <= j
    IN IF matching = {} THEN deliveries
       ELSE [deliveries EXCEPT ![first].status =
                                  IF outcome = "ok" THEN "delivered" ELSE "failed"]

restOfSubmission == <<clockVars, pipelineVars, mainVars, filt, direct, gen,
                      consumerVars, user_id, ret, getres, agent>>

\* Message.create and CertificationSubmission.create for the same channels.
B_create(channels) ==
    /\ entity = NoEntity
    /\ submission = NoSubmission
    /\ entity' = [status |-> "draft",
                  channels |-> channels,
                  deliveries |-> [i \in DOMAIN channels |-> EntityDelivery(channels[i])],
                  updated_at |-> now]
    /\ submission' = [status |-> "scheduled",
                      deliveries |-> [i \in DOMAIN channels |->
                                         CertificationDelivery(channels[i])]]
    /\ raised' = FALSE
    /\ UNCHANGED restOfSubmission

\* mark_processing on both objects.
B_mark_processing ==
    /\ submission # NoSubmission
    /\ entity' = [entity EXCEPT !.status = "processing", !.updated_at = now]
    /\ submission' = [submission EXCEPT !.status = "processing"]
    /\ raised' = FALSE
    /\ UNCHANGED restOfSubmission

\* mark_channel_delivered(channel) (outcome "ok") or mark_channel_failed(
\* channel, error) (outcome "fail") on both objects.
B_mark_channel(c, outcome) ==
    /\ submission # NoSubmission
    /\ LET ds == mark_delivery(entity.deliveries, c, outcome, now)
       IN entity' = [entity EXCEPT !.status = update_overall_status(ds, entity.status),
                                  !.deliveries = ds, !.updated_at = now]
    /\ LET ds == mark_submission_delivery(submission.deliveries, c, outcome)
       IN submission' = [status |-> submission_update_status(ds, submission.status),
                         deliveries |-> ds]
    /\ raised' = FALSE
    /\ UNCHANGED restOfSubmission

\* One sequence of calls made on a Message and on a CertificationSubmission
\* of the same channels; Message.schedule has no counterpart.
NextSubmission ==
    \/ \E channels \in ChannelSeqs : B_create(channels)
    \/ E_schedule
    \/ B_mark_processing
    \/ \E c \in Channels : B_mark_channel(c, "ok")
    \/ \E c \in Channels : B_mark_channel(c, "fail")

SubmissionSpec == Init /\ [][NextSubmission]_vars

\* ================================================================ claims
EventsFor(m) == {i \in DOMAIN stream : stream[i].message_id = m}

\* Some Dispatcher replica holds a fetched row of m that it has not yet
\* finished dispatching.
HeldByDispatcher(m) ==
    \E r \in Replicas :
        \/ dcur[r].message_id = m
        \/ \E row \in drows[r] : row.message_id = m

\* A sweep's SELECT can still pick m (now or once it is due).
Claimable(m) == messages[m] = "scheduled"

\* C1: every (message, channel) sees at most one adapter send, whatever the
\* interleaving of intake publish, sweeps, Worker processing, store errors,
\* crashes and re-acquisition of a Failed idempotency record.
AtMostOnceSend == \A m \in Msgs, c \in Channels : sends[m][c] <= 1

\* C2: no adapter send for a message happens while now < scheduled_at.
NoEarlyDelivery ==
    [][\A m \in Msgs :
          (\E c \in Channels : sends'[m][c] > sends[m][c]) => now >= scheduled_at[m]]_vars

\* C3: no message has events on the log published by two different
\* Dispatcher replicas.
DispatcherNonOverlap ==
    \A i, j \in DOMAIN stream :
        (/\ stream[i].message_id = stream[j].message_id
         /\ stream[i].source \in Replicas
         /\ stream[j].source \in Replicas) => stream[i].source = stream[j].source

\* C4: while the idempotency record of a key is Completed and not expired
\* and the Worker process lives, every step leaves the record, the message
\* row, its delivery rows and its send counts unchanged, and a step that
\* takes a record of that key from the shard is skipped (back to the loop).
IdempotentReplay ==
    [][\A k \in Keys :
          (/\ cache[k].status = "completed"
           /\ expires[k] >= now
           /\ wpc' # "down")
          => /\ cache'[k] = cache[k]
             /\ sends'[k[1]] = sends[k[1]]
             /\ messages'[k[1]] = messages[k[1]]
             /\ channel_deliveries'[k[1]] = channel_deliveries[k[1]]
             /\ (/\ handed' # handed
                 /\ generate_key(stream[shard_iterator].message_id,
                                 stream[shard_iterator].channels) = k)
                => wpc' = "idle"]_vars

\* C4 witness: with the Direct publisher and no store error or crash, two
\* records of one key were handed over, the record is Completed and every
\* channel of the message was sent exactly once: the replay was skipped.
ReplaySkippedWitness ==
    /\ ~use_ai_agent /\ faults = 0 /\ crashes = 0 /\ wpc = "idle"
    /\ \E i, j \in handed :
          /\ i < j
          /\ stream[i].message_id = stream[j].message_id
          /\ stream[i].channels = stream[j].channels
          /\ cache[generate_key(stream[i].message_id, stream[i].channels)].status
                = "completed"
          /\ \A c \in stream[i].channels : sends[stream[i].message_id][c] = 1
          /\ messages[stream[i].message_id] \in {"delivered", "partial", "failed"}

\* C5: a message that is Processing in the store has an event on the log, or
\* is still held by a replica that is about to publish it, or by an intake
\* call that is about to publish it.
PublishFailureRecovered ==
    \A m \in Msgs :
        messages[m] = "processing"
            => (EventsFor(m) # {} \/ HeldByDispatcher(m) \/ intake[m] = "committed")

\* C6: a message whose intake publish failed has an event on the log, or can
\* still be picked by a sweep, or is held by a replica about to publish it.
IntakeRecovery ==
    \A m \in Msgs :
        intake[m] = "publish_failed"
            => (EventsFor(m) # {} \/ Claimable(m) \/ HeldByDispatcher(m))

\* C7 (P1): when process_scheduled_message returns for an existing message,
\* the message status is terminal and every delivery row of a target channel
\* is delivered or failed.
ProcessingEndsTerminal ==
    [][(/\ wpc \in {"record", "except"}
        /\ wpc' = "idle"
        /\ cache'[wkey].status = "completed")
       => /\ messages'[wrec.message_id]
                \in {"delivered", "partial", "partially_delivered", "failed"}
          /\ \A c \in TargetChannels(wrec.message_id) :
                channel_deliveries'[wrec.message_id][c].status
                    \in {"delivered", "failed"}]_vars

\* C8: when the Worker dies while it handles a message whose row is
\* Processing, the message can still be driven again: a sweep can pick it,
\* or a publisher that still holds it will put an event behind the position
\* a restarted Worker starts from.
CrashRedrive ==
    [][\A m \in Msgs :
          (/\ wpc \in {"deliver", "record", "except"}
           /\ wrec.message_id = m
           /\ messages[m] = "processing"
           /\ wpc' = "down")
          => (Claimable(m) \/ HeldByDispatcher(m) \/ intake[m] = "committed")']_vars

\* C9: every stream position the running Worker's iterator has passed was
\* handed to _process_record.
ConsumptionComplete ==
    wpc # "down" => \A i \in 1..(shard_iterator - 1) : i \in handed

\* C10: a delivery row that is delivered or failed is never changed again.
TerminalWriteImmutable ==
    [][\A m \in Msgs, c \in Channels :
          channel_deliveries[m][c].status \in {"delivered", "failed"}
              => channel_deliveries'[m][c] = channel_deliveries[m][c]]_vars

\* The deliveries the Message object tracks, and those still pending.
Tracked == DOMAIN entity.deliveries
Pending == {c \in Tracked : entity.deliveries[c].status \notin {"delivered", "failed"}}
MarkStep == entity' # entity /\ entity'.deliveries # entity.deliveries

\* C11: right after a mark_channel_delivered / mark_channel_failed call that
\* leaves every delivery terminal, the status is delivered when all
\* deliveries are delivered, failed when all are failed, and
\* partially_delivered when both occur.
AggregateStatus ==
    [][(MarkStep /\ Pending' = {})
       => entity'.status =
            (IF \A c \in Tracked' : entity'.deliveries[c].status = "delivered"
             THEN "delivered"
             ELSE IF \A c \in Tracked' : entity'.deliveries[c].status = "failed"
             THEN "failed"
             ELSE "partially_delivered")]_vars

\* C11 witness: a message with one delivery delivered and one failed whose
\* status is partially_delivered.
MixedOutcomeWitness ==
    /\ \E c \in Tracked : entity.deliveries[c].status = "delivered"
    /\ \E c \in Tracked : entity.deliveries[c].status = "failed"
    /\ entity.status = "partially_delivered"

\* C12: a mark_channel_delivered / mark_channel_failed call on a Processing
\* message that leaves some delivery pending leaves the status Processing.
PendingKeepsProcessing ==
    [][(MarkStep /\ entity.status = "processing" /\ Pending' # {})
       => entity'.status = "processing"]_vars

\* C20: schedule() on a draft message sets the status to scheduled; on any
\* other status it raises and leaves status and updated_at as they were.
ScheduleOnlyFromDraft ==
    [][(entity # NoEntity
        /\ \/ (raised' /\ ~raised)
           \/ (entity'.status = "scheduled" /\ entity.status # "scheduled"))
       => IF entity.status = "draft"
          THEN ~raised' /\ entity'.status = "scheduled"
          ELSE raised' /\ entity' = entity]_vars

\* C20 witness: schedule() was refused on a scheduled message after the
\* clock had moved on, and updated_at is still the time of the first call.
ScheduleRefusedWitness ==
    /\ raised
    /\ entity.status = "scheduled"
    /\ entity.updated_at < now

\* C13: a Get by a caller who does not own the stored message answers not
\* found, as it does for an id without a row.
ForeignMessageNotFound ==
    (/\ getres.caller # "none"
     /\ user_id[getres.message_id] # "none"
     /\ user_id[getres.message_id] # getres.caller) => ~getres.found

\* C14: once publish has taken a request whose input-filter result is not
\* safe (risk blocked, or medium and above in strict mode), the run is over
\* with the blocked result and no tool has handed anything to an adapter.
GuardrailShortCircuit ==
    (/\ agent.pc # "idle"
     /\ \/ agent.risk_level = "blocked"
        \/ (agent.strict_mode /\ agent.risk_level \in {"medium", "high"}))
    => /\ agent.pc = "done"
       /\ agent.blocked
       /\ \A c \in Channels : agent.call_count[c] = 0
       /\ \A c \in Channels : agent_channel_results(agent)[c] = "none"

\* C14 witness: a strict-mode run stopped on medium-risk content.
MediumBlockedWitness ==
    /\ agent.pc = "done" /\ agent.strict_mode /\ agent.risk_level = "medium"
    /\ agent.blocked /\ agent.channels # {}

\* C16: a tool hands text for a channel to the adapter only after that text
\* has gone through filter_output.
OutputFilteredBeforeSend ==
    [][\A c \in Channels :
          agent'.call_count[c] > agent.call_count[c] => c \in agent.filtered]_vars

\* C15: when processing returns for an event whose content the input
\* guardrail blocked, the message is failed and every delivery row of a
\* target channel is failed with the error guardrail_blocked.
GuardrailBlockOutcome ==
    [][(/\ wpc \in {"record", "except"}
        /\ blocked
        /\ wpc' = "idle"
        /\ cache'[wkey].status = "completed")
       => /\ messages'[wrec.message_id] = "failed"
          /\ \A c \in TargetChannels(wrec.message_id) :
                /\ channel_deliveries'[wrec.message_id][c].status = "failed"
                /\ channel_deliveries'[wrec.message_id][c].error
                      = "guardrail_blocked"]_vars

\* A record that a check_and_lock call at the current time hands back: not
\* expired, and Completed or Processing within the stale limit.
Held(k) ==
    /\ expires[k] >= now
    /\ \/ cache[k].status = "completed"
       \/ (cache[k].status = "processing"
           /\ now - cache[k].created_at <= STALE_SECONDS)

OutcomeRecorded ==
    [][(wpc = "except" /\ wpc' = "idle") => cache'[wkey].status = "failed"]_vars

\* C19: handling an event whose message has no row ends with no adapter
\* send, no store write and the idempotency record of the key Failed.
MissingMessageFailed ==
    [][(/\ wpc = "get"
        /\ messages[wrec.message_id] = "absent"
        /\ wpc' = "idle")
       => /\ sends' = sends
          /\ storeVars' = storeVars
          /\ cache'[wkey].status = "failed"]_vars

\* The events on the log that execute published for m.
IntakeEvents(m) == {i \in EventsFor(m) : stream[i].source = "intake"}

ScheduledAllPending ==
    /\ entity.status = "scheduled"
          => \A c \in Tracked : entity.deliveries[c].status \notin {"delivered", "failed"}
    /\ \A m \in Msgs :
          messages[m] = "scheduled"
              => \A c \in TargetChannels(m) :
                    channel_deliveries[m][c].status \notin {"delivered", "failed"}

\* C23 (I1): a Message object has as many deliveries as channels in its
\* list, and exactly one delivery for each channel the list names.
OneDeliveryPerChannel ==
    entity # NoEntity
        => /\ Len(entity.deliveries) = Len(entity.channels)
           /\ \A i \in DOMAIN entity.channels :
                 Cardinality({j \in DOMAIN entity.deliveries :
                                 entity.deliveries[j].channel = entity.channels[i]}) = 1

\* C24: on one Dispatcher process, at most one execution of poll_job is in
\* progress at any time, the initial poll and the interval runs included.
SweepSerialization == Cardinality({j \in PollJobs : InProgress(j)}) <= 1

\* C25: once the shutdown signal was handled no execution of poll_job
\* starts, and when the engine is disposed and main has returned no
\* execution was cut short: none holds a claimed message without its event.
ShutdownDrains ==
    /\ [][~proc.running => \A j \in PollJobs : InProgress(j)' => InProgress(j)]_vars
    /\ [](proc.engine = "disposed" => \A j \in PollJobs : poll[j].pc \in {"idle", "done"})

TerminalStatuses == {"delivered", "partially_delivered", "partial", "failed"}

\* C28: no step takes a message row whose status is terminal back to
\* processing or scheduled.
TerminalNeverRegresses ==
    [][\A m \in Msgs :
          messages[m] \in TerminalStatuses
              => messages'[m] \notin {"processing", "scheduled"}]_vars

\* MessageStatus: the values MessageModel.to_entity can load.
MessageStatusValues == {"draft", "scheduled", "processing", "delivered",
                        "partially_delivered", "failed"}

\* The aggregate of the delivery rows of m's target channels, by the rule of
\* _update_overall_status: all delivered, all failed, some delivered, or the
\* status as it stands.
RowAggregate(m) ==
    LET statuses == {channel_deliveries[m][c].status : c \in TargetChannels(m)}
    IN IF statuses = {"delivered"} THEN "delivered"
       ELSE IF statuses = {"failed"} THEN "failed"
       ELSE IF "delivered" \in statuses THEN "partially_delivered"
       ELSE messages[m]

\* C29: the status the Worker writes at the end of processing is the
\* aggregate of the delivery rows, and every status of a message row is a
\* MessageStatus value.
WorkerStatusIsAggregate ==
    /\ [][(/\ wpc = "record"
            /\ wtodo = {}
            /\ messages'[wrec.message_id] # messages[wrec.message_id])
            => messages'[wrec.message_id] = RowAggregate(wrec.message_id)]_vars
    /\ [](\A m \in Msgs : messages[m] \in MessageStatusValues \cup {"absent"})

\* C30: a check_and_lock call that finds a live Processing record hands it
\* back exactly when its age is below the stale limit, and returns None
\* (having re-acquired) for every age at or above it.
StaleLockBoundary ==
    [][\A k \in IdemKeys :
          (/\ ret' # ret
           /\ ret'.key = k
           /\ cache[k].status = "processing"
           /\ expires[k] >= now)
              => IF now - cache[k].created_at < STALE_SECONDS
                 THEN ret'.result = cache[k]
                 ELSE ret'.result = NoRecord]_vars

Permutation(s, t) ==
    /\ Len(s) = Len(t)
    /\ \A c \in ChannelTypes :
          Cardinality({i \in DOMAIN s : s[i] = c}) = Cardinality({i \in DOMAIN t : t[i] = c})

\* C32: two generate_key calls with the same message id and channel lists
\* that are permutations of each other (the same list included) give the
\* same key; two calls with different message ids and the same channel list
\* give different keys.
KeyStable ==
    (gen.a # NoKey /\ gen.b # NoKey)
        => /\ (/\ gen.a.message_id = gen.b.message_id
               /\ Permutation(gen.a.channels, gen.b.channels)) => gen.a.key = gen.b.key
           /\ (/\ gen.a.message_id # gen.b.message_id
               /\ gen.a.channels = gen.b.channels) => gen.a.key # gen.b.key

\* C32 witness: the same message with its two channels in either order got
\* one key.
PermutedListsWitness ==
    /\ gen.a.message_id = 1
    /\ gen.b.message_id = 1
    /\ gen.a.channels = <<"linkedin", "facebook">>
    /\ gen.b.channels = <<"facebook", "linkedin">>
    /\ gen.a.key = gen.b.key

\* A step of the sweep of replica r.
SweepStep(r) == dpc'[r] # dpc[r] \/ drows'[r] # drows[r] \/ dcur'[r] # dcur[r]

CorrelationRestored ==
    cons.pc = "record" => cons.ambient = shard[cons.cur].correlation_id

\* The records whose handling is over.
Handled == {cons.log[j] : j \in DOMAIN cons.log} \ {IF cons.pc = "record" THEN cons.cur ELSE 0}

\* A record that is not JSON, is of an unknown type, or whose handling raised.
Poison(i) == shard[i].kind \in {"bad_json", "unknown"} \/ i \in cons.raised

\* C37: a poison record leaves no store write and no adapter call; handling
\* a record touches no idempotency record of another key; records are
\* handled one at a time in log order, none skipped, and the loop ends only
\* after stop().
PoisonIsolated ==
    /\ [](\A i \in Handled : Poison(i) => i \notin cons.writes /\ i \notin cons.calls)
    /\ [][cons.pc = "record"
            => \A m \in Msgs \ {shard[cons.cur].message_id} :
                  cons'.locks[m] = cons.locks[m]]_vars
    /\ [](cons.log = [j \in 1..Len(cons.log) |-> cons.first + j - 1])
    /\ [](cons.pc \in {"get", "sleep", "backoff", "exited"}
            => Len(cons.log) = cons.next - cons.first)
    /\ [](cons.pc = "exited" => ~cons.running)

\* C38: after stop() the consumer starts no get_records call, goes on only
\* through the records of the batch it holds, and its loop exits with that
\* batch handled to its end; from stop() on, start() eventually returns.
WorkerStops ==
    /\ [][(~cons.running /\ cons.pc = "get") => cons'.pc \in {"get", "exited"}]_vars
    /\ [][(~cons.running /\ cons.pc \in {"batch", "record"})
            => /\ cons'.pc \in {"batch", "record", "get"}
               /\ cons'.upto = cons.upto]_vars
    /\ [](cons.pc = "exited"
            => /\ cons.cur = 0
               /\ Len(cons.log) = cons.next - cons.first
               /\ cons.upto < cons.next)
    /\ ((cons.pc # "stopped" /\ ~cons.running) ~> cons.pc = "exited")

\* C38 witness: stop() came while the loop was in its error back-off, and
\* the loop has exited.
StoppedInBackoffWitness ==
    /\ cons.pc = "exited"
    /\ cons.stopped_at = "backoff"
    /\ cons.errors > 0

\* C35: the adapter sends of different channels of one request run side by
\* side: when the send of one channel has completed, the send of every other
\* channel of the request has already been started, none waited for it.
FanOutConcurrent ==
    direct.pc = "awaiting"
        => \A i, j \in DOMAIN direct.channels :
              (/\ direct.channels[i] # direct.channels[j]
               /\ i \in direct.invoked
               /\ i \in DOMAIN direct.answered
               /\ ~(direct.channels[j] = "instagram" /\ ~direct.media_url))
                  => j \in direct.invoked

SameDeliveries ==
    /\ DOMAIN entity.deliveries = DOMAIN submission.deliveries
    /\ \A i \in DOMAIN entity.deliveries :
          /\ entity.deliveries[i].channel = submission.deliveries[i].channel
          /\ submission.deliveries[i].status =
                IF entity.deliveries[i].status = "scheduled" THEN "pending"
                ELSE entity.deliveries[i].status

\* C39: a mark_channel_delivered / mark_channel_failed call made on a Message
\* and a CertificationSubmission that carry the same status and the same
\* per-channel statuses leaves them with the same status, also while a
\* delivery is still pending.
AggregatesAgree ==
    [][(/\ submission # NoSubmission
        /\ SameDeliveries
        /\ entity.status = submission.status
        /\ submission'.deliveries # submission.deliveries)
          => entity'.status = submission'.status]_vars
====
